---- MODULE Spec2Model ----
(***************************************************************************)
(* Model of the pricing calculator of app.py (class PriceCalculator and    *)
(* the module-level singleton `calculator`).                               *)
(*                                                                         *)
(* Numbers.  The program computes with Python floats on decimal inputs.    *)
(* The model computes the same expressions in exact decimal arithmetic:    *)
(* a decimal is a record [m |-> mantissa, e |-> places] standing for       *)
(* m / 10^e, and the mantissa is a four-limb integer (base 10^6, the top   *)
(* limb carrying the sign), because the products of the program exceed     *)
(* the 32-bit integers of TLC.  round() is Python 3's round: to the        *)
(* nearest integer, ties to the even one.  A value that is an exact tie    *)
(* in decimal (x.5) may sit just off the tie as a float, so on such        *)
(* values the program's rounded field can differ by one from the model's;  *)
(* no formula below rests on a tie.                                        *)
(*                                                                         *)
(* Input encoding.  Areas are whole square metres; a weighted area is in   *)
(* tenths of a square metre; a price per square metre is in hundredths of  *)
(* a currency unit; an indexation factor is in thousandths; a floor        *)
(* adjustment is in ten-thousandths.  An Optional field is << >> (None)    *)
(* or <<v>>.                                                               *)
(***************************************************************************)
EXTENDS Integers, Sequences, FiniteSets, TLC

VARIABLES coefficients, balcony_tiers, request, pc, result, frame, log, arg, ret

vars == <<coefficients, balcony_tiers, request, pc, result, frame, log, arg, ret>>

-----------------------------------------------------------------------------
(* Exact integers of up to 24 digits: <<l3, l2, l1, l0>> stands for        *)
(* ((l3 * B + l2) * B + l1) * B + l0, with 0 <= l2, l1, l0 < B.            *)

LimbBase == 1000 * 1000

SmallFactor == 2 * 1000

Norm(l3, l2, l1, l0) ==
    LET t1 == l1 + (l0 \div LimbBase)
        t2 == l2 + (t1 \div LimbBase)
        t3 == l3 + (t2 \div LimbBase)
    IN  <<t3, t2 % LimbBase, t1 % LimbBase, l0 % LimbBase>>

BigOf(n) == Norm(0, 0, 0, n)

BigAdd(x, y) == Norm(x[1] + y[1], x[2] + y[2], x[3] + y[3], x[4] + y[4])

BigSub(x, y) == Norm(x[1] - y[1], x[2] - y[2], x[3] - y[3], x[4] - y[4])

BigLess(x, y) == BigSub(x, y)[1] < 0

\* x * k for 0 <= k <= SmallFactor
BigMulSmall(x, k) == Norm(x[1] * k, x[2] * k, x[3] * k, x[4] * k)

RECURSIVE BigMul(_, _)
\* x * k for any integer k
BigMul(x, k) ==
    IF k < 0 THEN BigSub(BigOf(0), BigMul(x, -k))
    ELSE IF k <= SmallFactor THEN BigMulSmall(x, k)
    ELSE BigAdd(BigMulSmall(BigMul(x, k \div 1000), 1000), BigMulSmall(x, k % 1000))

RECURSIVE BigScale(_, _)
\* x * 10^n
BigScale(x, n) == IF n = 0 THEN x ELSE BigScale(BigMulSmall(x, 10), n - 1)

\* floor(x / 10)
BigDiv10(x) ==
    LET r3 == x[1] % 10
        c2 == r3 * LimbBase + x[2]
        c1 == (c2 % 10) * LimbBase + x[3]
        c0 == (c1 % 10) * LimbBase + x[4]
    IN  <<x[1] \div 10, c2 \div 10, c1 \div 10, c0 \div 10>>

RECURSIVE BigUnscale(_, _)
\* floor(x / 10^n)
BigUnscale(x, n) == IF n = 0 THEN x ELSE BigUnscale(BigDiv10(x), n - 1)

\* the integer a Big stands for, when it fits the integers of TLC
BigToInt(x) ==
    IF x[1] < 0
    THEN LET y == BigSub(BigOf(0), x) IN -(y[3] * LimbBase + y[4])
    ELSE x[3] * LimbBase + x[4]

-----------------------------------------------------------------------------
(* Decimals: [m |-> Big, e |-> Nat] stands for m / 10^e.                   *)

Dec(n, places) == [m |-> BigOf(n), e |-> places]

DInt(n) == Dec(n, 0)

Max2(a, b) == IF a >= b THEN a ELSE b

DAt(x, places) == BigScale(x.m, places - x.e)

DAdd(x, y) ==
    LET p == Max2(x.e, y.e) IN [m |-> BigAdd(DAt(x, p), DAt(y, p)), e |-> p]

DSub(x, y) ==
    LET p == Max2(x.e, y.e) IN [m |-> BigSub(DAt(x, p), DAt(y, p)), e |-> p]

\* x * (k / 10^places)
DMul(x, k, places) == [m |-> BigMul(x.m, k), e |-> x.e + places]

DLess(x, y) == LET p == Max2(x.e, y.e) IN BigLess(DAt(x, p), DAt(y, p))

DLeq(x, y) == ~DLess(y, x)

DEq(x, y) == ~DLess(x, y) /\ ~DLess(y, x)

DMax(x, y) == IF DLess(x, y) THEN y ELSE x

DMin(x, y) == IF DLess(y, x) THEN y ELSE x

\* Python 3 round(x): the nearest integer, a tie going to the even neighbour
DRound(x) ==
    LET q    == BigUnscale(x.m, x.e)
        rem  == BigSub(x.m, BigScale(q, x.e))
        twice == BigMulSmall(rem, 2)
        unit == BigScale(BigOf(1), x.e)
        qi   == BigToInt(q)
    IN  IF BigLess(twice, unit) THEN qi
        ELSE IF BigLess(unit, twice) THEN qi + 1
        ELSE IF qi % 2 = 0 THEN qi ELSE qi + 1

-----------------------------------------------------------------------------
(* The program's values.                                                   *)

None == << >>

Some(v) == <<v>>

\* Python truthiness of an Optional number: neither None nor zero
Truthy(opt) == opt # None /\ opt[1] # 0

\* ProjectType
TARGET_2_0 == "target_2.0"

TARGET_3_0 == "target_3.0"

BUYER_REDUCED == "buyer_reduced"

Min2(a, b) == IF a <= b THEN a ELSE b

\* CalculationRequest: the constraints of its fields
ValidRequest(req) ==
    /\ req.project_type \in {TARGET_2_0, TARGET_3_0, BUYER_REDUCED}
    /\ req.apartment_area > 0
    /\ req.balcony_area >= 0
    /\ req.garden_area >= 0
    /\ req.storage_area >= 0
    /\ req.parking_spots >= 0
    /\ req.base_price_per_sqm > 0
    /\ (req.current_price_per_sqm = None \/ req.current_price_per_sqm[1] > 0)
    /\ (req.indexation_factor = None
        \/ (req.indexation_factor[1] >= 0 /\ req.indexation_factor[1] <= 1000))
    /\ (req.discount_limit = None \/ req.discount_limit[1] > 0)
    /\ (req.building_floors = None \/ req.building_floors[1] > 0)
    /\ (req.apartment_floor = None \/ req.apartment_floor[1] > 0)

\* a price per square metre given in hundredths; a weighted area w, in tenths,
\* multiplies a decimal x as DMul(x, w, 1)
Price(n) == Dec(n, 2)

\* PriceCalculator.__init__: self.coefficients, in tenths
NewCoefficients ==
    [apartment |-> 10, storage |-> 4, garden |-> 4, parking |-> 20]

\* PriceCalculator.__init__: self.balcony_tiers, the coefficients in tenths
NewBalconyTiers ==
    [tier1 |-> [max_area |-> 30, coefficient |-> 3],
     tier2 |-> [max_area |-> 60, coefficient |-> 2],
     tier3 |-> [max_area |-> 120, coefficient |-> 1]]

-----------------------------------------------------------------------------
(* PriceCalculator: the pure methods.  They read self.coefficients and     *)
(* self.balcony_tiers, the state of the shared calculator.                 *)

\* mutant: the third tier takes its upper edge (120) for its capacity
balcony_weighted_area_wide_tier3(balcony_area) ==
    IF balcony_area <= 0 THEN 0
    ELSE
      LET tier1_area == Min2(balcony_area, balcony_tiers.tier1.max_area)
          remaining1 == balcony_area - tier1_area
          tier2_area == Min2(remaining1, balcony_tiers.tier2.max_area - balcony_tiers.tier1.max_area)
          remaining2 == remaining1 - tier2_area
          tier3_area == Min2(remaining2, balcony_tiers.tier3.max_area)
      IN  tier1_area * balcony_tiers.tier1.coefficient
          + tier2_area * balcony_tiers.tier2.coefficient
          + tier3_area * balcony_tiers.tier3.coefficient

\* the weighted balcony area, in tenths of a square metre
calculate_balcony_weighted_area(balcony_area) ==
    IF balcony_area <= 0 THEN 0
    ELSE
      LET tier1_area == Min2(balcony_area, balcony_tiers.tier1.max_area)
          weighted1  == tier1_area * balcony_tiers.tier1.coefficient
          remaining1 == balcony_area - tier1_area
      IN  IF remaining1 > 0
          THEN
            LET tier2_max  == balcony_tiers.tier2.max_area - balcony_tiers.tier1.max_area
                tier2_area == Min2(remaining1, tier2_max)
                weighted2  == weighted1 + tier2_area * balcony_tiers.tier2.coefficient
                remaining2 == remaining1 - tier2_area
            IN  IF remaining2 > 0
                THEN
                  LET tier3_max  == balcony_tiers.tier3.max_area - balcony_tiers.tier2.max_area
                      tier3_area == Min2(remaining2, tier3_max)
                  IN  weighted2 + tier3_area * balcony_tiers.tier3.coefficient
                ELSE weighted2
          ELSE weighted1

\* mutant: a parking spot weighted with the storage coefficient
weighted_area_parking_as_storage(apartment_area, balcony_area, garden_area, storage_area, parking_spots) ==
    apartment_area * coefficients.apartment
    + calculate_balcony_weighted_area(balcony_area)
    + garden_area * coefficients.garden
    + storage_area * coefficients.storage
    + parking_spots * coefficients.storage

\* the weighted area, in tenths of a square metre
calculate_weighted_area(apartment_area, balcony_area, garden_area, storage_area, parking_spots) ==
    LET balcony_weighted == calculate_balcony_weighted_area(balcony_area)
    IN  apartment_area * coefficients.apartment
        + balcony_weighted
        + garden_area * coefficients.garden
        + storage_area * coefficients.storage
        + parking_spots * coefficients.parking

\* the final price of Target 2.0 from the base total and the indexation factor
\* (in thousandths): the three branches of lines 120-129
target_2_0_final_price(base_total_price, indexation_factor) ==
    IF DLess(DInt(200000), DMul(base_total_price, indexation_factor, 3))
    THEN DSub(DMul(base_total_price, 1000 + indexation_factor, 3), DInt(500000))
    ELSE IF DLess(DInt(300000), DMul(base_total_price, 2, 1))
    THEN DSub(base_total_price, DInt(300000))
    ELSE DMul(base_total_price, 8, 1)

calculate_target_price_2_0(apartment_area, balcony_area, garden_area, storage_area, parking_spots, base_price_per_sqm, indexation_factor) ==
    LET weighted_area == calculate_weighted_area(
            apartment_area, balcony_area, garden_area, storage_area, parking_spots)
        base_total_price == DMul(Price(base_price_per_sqm), weighted_area, 1)
        final_price == target_2_0_final_price(base_total_price, indexation_factor)
    IN  [ret |-> [project_type |-> "target price 2.0",
                  weighted_area |-> weighted_area,
                  base_total_price |-> DRound(base_total_price),
                  discount_amount |-> DRound(DSub(base_total_price, final_price)),
                  final_price |-> DRound(final_price),
                  indexation_applied |-> indexation_factor > 0],
         locals |-> [weighted_area |-> weighted_area,
                     base_total_price |-> base_total_price,
                     final_price |-> final_price]]

\* mutant: the clamp of line 169 left out
target_3_0_final_price_unclamped(base_total_price, base_with_25_discount, current_minus_limit) ==
    DMax(base_with_25_discount, current_minus_limit)

\* mutant: min for max on line 166
target_3_0_final_price_lower_floor(base_total_price, base_with_25_discount, current_minus_limit) ==
    DMin(DMin(base_with_25_discount, current_minus_limit), base_total_price)

\* the final price of Target 3.0: the higher floor, clamped to the base total
target_3_0_final_price(base_total_price, base_with_25_discount, current_minus_limit) ==
    DMin(DMax(base_with_25_discount, current_minus_limit), base_total_price)

calculate_target_price_3_0(apartment_area, balcony_area, garden_area, storage_area, parking_spots, base_price_per_sqm, current_price_per_sqm, discount_limit) ==
    LET weighted_area == calculate_weighted_area(
            apartment_area, balcony_area, garden_area, storage_area, parking_spots)
        base_total_price == DMul(Price(base_price_per_sqm), weighted_area, 1)
        current_total_price == DMul(Price(current_price_per_sqm), weighted_area, 1)
        base_with_25_discount == DMul(base_total_price, 75, 2)
        current_minus_limit == DSub(current_total_price, DInt(discount_limit))
        final_price == target_3_0_final_price(
            base_total_price, base_with_25_discount, current_minus_limit)
    IN  [ret |-> [project_type |-> "target price 3.0",
                  weighted_area |-> weighted_area,
                  base_total_price |-> DRound(base_total_price),
                  current_total_price |-> DRound(current_total_price),
                  base_with_25_discount |-> DRound(base_with_25_discount),
                  current_minus_limit |-> DRound(current_minus_limit),
                  final_price |-> DRound(final_price),
                  savings |-> DRound(DSub(current_total_price, final_price)),
                  discount_limit_used |-> discount_limit],
         locals |-> [weighted_area |-> weighted_area,
                     base_total_price |-> base_total_price,
                     current_total_price |-> current_total_price,
                     base_with_25_discount |-> base_with_25_discount,
                     current_minus_limit |-> current_minus_limit,
                     final_price |-> final_price]]

calculate_buyer_reduced_price(apartment_area, balcony_area, garden_area, storage_area, parking_spots, price_per_sqm) ==
    LET weighted_area == calculate_weighted_area(
            apartment_area, balcony_area, garden_area, storage_area, parking_spots)
        final_price == DMul(Price(price_per_sqm), weighted_area, 1)
    IN  [ret |-> [project_type |-> "buyer price / reduced price",
                  weighted_area |-> weighted_area,
                  price_per_sqm |-> price_per_sqm,
                  final_price |-> DRound(final_price)],
         locals |-> [weighted_area |-> weighted_area,
                     final_price |-> final_price]]

\* the floor adjustment, in ten-thousandths (0.005 per floor is 50 of them);
\* middle = building_floors / 2 is kept in tenths of a floor
calculate_floor_adjustment(building_floors, apartment_floor) ==
    IF building_floors <= 10 THEN 0
    ELSE
      LET is_even_floors == (building_floors % 2 = 0)
          middle == building_floors * 5
      IN  IF apartment_floor * 10 <= middle
          THEN (apartment_floor * 10 - middle) * 5
          ELSE IF is_even_floors
               THEN (apartment_floor * 10 - (10 + middle)) * 5
               ELSE (apartment_floor * 10 - (building_floors + 1) * 5) * 5

\* the two fields the dispatcher adds when both floor inputs are supplied:
\* the adjusted price is computed from result['final_price'], the rounded price
floor_fields(final_price, floor_adjustment) ==
    [floor_adjustment_percent |-> floor_adjustment,
     price_with_floor_adjustment |->
         DRound(DMul(DInt(final_price), 10000 + floor_adjustment, 4))]

\* lines 250-259: the result with the floor fields merged in
with_floor_adjustment(req, res) ==
    IF Truthy(req.building_floors) /\ Truthy(req.apartment_floor)
    THEN LET floor_adjustment == calculate_floor_adjustment(
                 req.building_floors[1], req.apartment_floor[1])
         IN  [pc |-> "returned",
              result |-> floor_fields(res.ret.final_price, floor_adjustment) @@ res.ret,
              frame |-> [floor_adjustment |-> floor_adjustment] @@ res.locals]
    ELSE [pc |-> "returned",
          result |-> res.ret,
          frame |-> [floor_adjustment |-> 0] @@ res.locals]

\* a raised ValueError: no result is produced
Raised(message) == [pc |-> "raised", result |-> [error |-> message], frame |-> [error |-> message]]

\* mutant: `if request.current_price_per_sqm is None`
current_price_is_none(req) == req.current_price_per_sqm = None

\* line 235: `if not request.current_price_per_sqm`
current_price_missing(req) == ~Truthy(req.current_price_per_sqm)

\* line 232: `request.indexation_factor or 0.0`, in thousandths
indexation_factor_or_zero(req) ==
    IF Truthy(req.indexation_factor) THEN req.indexation_factor[1] ELSE 0

\* line 240: `request.discount_limit or 600000`
discount_limit_or_default(req) ==
    IF Truthy(req.discount_limit) THEN req.discount_limit[1] ELSE 600000

\* the outcome of calculate_apartment_price(request)
calculate_apartment_price(req) ==
    IF req.project_type = TARGET_2_0
    THEN with_floor_adjustment(req, calculate_target_price_2_0(
             req.apartment_area, req.balcony_area, req.garden_area,
             req.storage_area, req.parking_spots, req.base_price_per_sqm,
             indexation_factor_or_zero(req)))
    ELSE IF req.project_type = TARGET_3_0
    THEN IF current_price_missing(req)
         THEN Raised("current price per sqm is required for target price 3.0")
         ELSE with_floor_adjustment(req, calculate_target_price_3_0(
                  req.apartment_area, req.balcony_area, req.garden_area,
                  req.storage_area, req.parking_spots, req.base_price_per_sqm,
                  req.current_price_per_sqm[1],
                  discount_limit_or_default(req)))
    ELSE IF req.project_type = BUYER_REDUCED
    THEN with_floor_adjustment(req, calculate_buyer_reduced_price(
             req.apartment_area, req.balcony_area, req.garden_area,
             req.storage_area, req.parking_spots, req.base_price_per_sqm))
    ELSE Raised("unknown project type")

-----------------------------------------------------------------------------
(* Bounds and input sets.                                                  *)

MaxParking == 2

MaxBalcony == 150

MaxFloors == 24

MaxCalls == 3

ApartmentAreas == {25, 80, 120}

BalconyAreas == {0, 12, 15}

GardenAreas == {0, 10}

StorageAreas == {0, 6}

\* in hundredths: 12479.22, 13808, 8656.3
BasePrices == {1247922, 1380800, 865630}

\* in hundredths: absent, zero, negative, 18201
CurrentPrices == {None, Some(0), Some(-100000), Some(1820100)}

\* in thousandths: absent, 0, 0.103, 0.6, 1
IndexationFactors == {None, Some(0), Some(103), Some(600), Some(1000)}

DiscountLimits == {None, Some(500000), Some(600000)}

\* <<building_floors, apartment_floor>>
FloorInputs ==
    {<<None, None>>, <<Some(20), None>>, <<Some(20), Some(5)>>, <<Some(11), Some(11)>>}

PhysicalInputs ==
    [apartment_area : ApartmentAreas, balcony_area : BalconyAreas,
     garden_area : GardenAreas, storage_area : StorageAreas,
     parking_spots : 0..MaxParking, base_price_per_sqm : BasePrices]

\* the policy fields; a field the project type does not read keeps the default
\* of CalculationRequest (indexation_factor 0.0, discount_limit 600000, no
\* current price), except that the types that do not read the current price are
\* also tried with each of its values
PolicyInputs ==
    [project_type : {TARGET_2_0}, indexation_factor : IndexationFactors,
     current_price_per_sqm : {None}, discount_limit : {Some(600000)}]
    \cup [project_type : {TARGET_3_0}, indexation_factor : {Some(0)},
          current_price_per_sqm : CurrentPrices, discount_limit : DiscountLimits]
    \cup [project_type : {TARGET_2_0, BUYER_REDUCED}, indexation_factor : {Some(0)},
          current_price_per_sqm : CurrentPrices, discount_limit : {Some(600000)}]
    \cup [project_type : {"other"}, indexation_factor : {Some(0)},
          current_price_per_sqm : {None}, discount_limit : {Some(600000)}]

Requests ==
    { ph @@ po @@ [building_floors |-> fl[1], apartment_floor |-> fl[2]] :
        ph \in PhysicalInputs, po \in PolicyInputs, fl \in FloorInputs }

\* test_excel_examples: the three reference requests
example_2_0 ==
    [project_type |-> TARGET_2_0, apartment_area |-> 80, balcony_area |-> 12,
     garden_area |-> 0, storage_area |-> 0, parking_spots |-> 1,
     base_price_per_sqm |-> 1247922, current_price_per_sqm |-> None,
     indexation_factor |-> Some(103), discount_limit |-> Some(600000),
     building_floors |-> None, apartment_floor |-> None]

example_3_0 ==
    [project_type |-> TARGET_3_0, apartment_area |-> 120, balcony_area |-> 12,
     garden_area |-> 0, storage_area |-> 6, parking_spots |-> 2,
     base_price_per_sqm |-> 1380800, current_price_per_sqm |-> Some(1820100),
     indexation_factor |-> Some(0), discount_limit |-> Some(600000),
     building_floors |-> None, apartment_floor |-> None]

example_buyer ==
    [project_type |-> BUYER_REDUCED, apartment_area |-> 120, balcony_area |-> 15,
     garden_area |-> 0, storage_area |-> 6, parking_spots |-> 2,
     base_price_per_sqm |-> 865630, current_price_per_sqm |-> None,
     indexation_factor |-> Some(0), discount_limit |-> Some(600000),
     building_floors |-> None, apartment_floor |-> None]

-----------------------------------------------------------------------------
(* Spec: one call of calculate_apartment_price on the shared calculator,   *)
(* the request drawn from Requests.                                        *)

NoResult == [pending |-> TRUE]

\* calculator = PriceCalculator()
NewCalculator ==
    /\ coefficients = NewCoefficients
    /\ balcony_tiers = NewBalconyTiers

\* mutant: the tier computation consumes the capacity of the shared table
DriftsCalculator ==
    /\ coefficients' = coefficients
    /\ balcony_tiers' = [balcony_tiers EXCEPT !.tier1.max_area = @ - 1]

\* calculate_apartment_price assigns no attribute of self
KeepsCalculator == UNCHANGED <<coefficients, balcony_tiers>>

Init ==
    /\ NewCalculator
    /\ request \in Requests
    /\ pc = "called"
    /\ result = NoResult
    /\ frame = NoResult
    /\ log = << >>
    /\ arg = None
    /\ ret = None

CalculateApartmentPrice ==
    /\ pc = "called"
    /\ \E out \in {calculate_apartment_price(request)} :
           /\ pc' = out.pc
           /\ result' = out.result
           /\ frame' = out.frame
    /\ KeepsCalculator
    /\ UNCHANGED <<request, log, arg, ret>>

Next == CalculateApartmentPrice

Spec == Init /\ [][Next]_vars

-----------------------------------------------------------------------------
(* SpecCalls: the endpoint `calculate` called up to MaxCalls times on the  *)
(* shared calculator; log records each call's request and outcome.         *)

CallRequests ==
    {example_2_0, example_3_0, example_buyer,
     [example_3_0 EXCEPT !.current_price_per_sqm = None],
     [example_buyer EXCEPT !.balcony_area = 45, !.building_floors = Some(20),
                           !.apartment_floor = Some(5)]}

InitCalls ==
    /\ NewCalculator
    /\ request = None
    /\ pc = "idle"
    /\ result = NoResult
    /\ frame = NoResult
    /\ log = << >>
    /\ arg = None
    /\ ret = None

calculate(req) ==
    /\ Len(log) < MaxCalls
    /\ \E out \in {calculate_apartment_price(req)} :
           /\ request' = req
           /\ pc' = out.pc
           /\ result' = out.result
           /\ frame' = out.frame
           /\ log' = Append(log, [request |-> req, pc |-> out.pc, result |-> out.result])
    /\ KeepsCalculator
    /\ UNCHANGED <<arg, ret>>

NextCalls == \E req \in CallRequests : calculate(req)

SpecCalls == InitCalls /\ [][NextCalls]_vars

-----------------------------------------------------------------------------
(* SpecBalcony: calculate_balcony_weighted_area applied to one balcony     *)
(* area drawn from 0..MaxBalcony.                                          *)

InitBalcony ==
    /\ NewCalculator
    /\ request = None
    /\ pc = "called"
    /\ result = NoResult
    /\ frame = NoResult
    /\ log = << >>
    /\ arg \in {<<a>> : a \in 0..MaxBalcony}
    /\ ret = None

BalconyWeightedArea ==
    /\ pc = "called"
    /\ ret' = <<calculate_balcony_weighted_area(arg[1])>>
    /\ pc' = "returned"
    /\ KeepsCalculator
    /\ UNCHANGED <<request, result, frame, log, arg>>

NextBalcony == BalconyWeightedArea

SpecBalcony == InitBalcony /\ [][NextBalcony]_vars

-----------------------------------------------------------------------------
(* SpecFloor: calculate_floor_adjustment applied to one pair               *)
(* <<building_floors, apartment_floor>> drawn from 1..MaxFloors.           *)

InitFloor ==
    /\ NewCalculator
    /\ request = None
    /\ pc = "called"
    /\ result = NoResult
    /\ frame = NoResult
    /\ log = << >>
    /\ arg \in (1..MaxFloors) \X (1..MaxFloors)
    /\ ret = None

FloorAdjustment ==
    /\ pc = "called"
    /\ ret' = <<calculate_floor_adjustment(arg[1], arg[2])>>
    /\ pc' = "returned"
    /\ KeepsCalculator
    /\ UNCHANGED <<request, result, frame, log, arg>>

NextFloor == FloorAdjustment

SpecFloor == InitFloor /\ [][NextFloor]_vars

-----------------------------------------------------------------------------
(* Claims checked under Spec.                                              *)

Returned == pc = "returned"

ReturnedValid == pc = "returned" /\ ValidRequest(request)

IsTarget2 == request.project_type = TARGET_2_0

IsTarget3 == request.project_type = TARGET_3_0

\* base_total_price * indexation_factor of the returned Target 2.0 call
IndexationExcess == DMul(frame.base_total_price, indexation_factor_or_zero(request), 3)

CompleteResult == {"project_type", "weighted_area", "final_price"} \subseteq DOMAIN result

CurrentPriceAbsentZeroNegative ==
    request.current_price_per_sqm = None \/ request.current_price_per_sqm[1] <= 0

\* C2 as stated: the call raises and produces no result whenever the type is
\* Target 3.0 and the current price is missing, zero or negative; a Target 2.0 or
\* BuyerReduced call never raises and returns a complete result.
C2_RaisesOnMissingZeroNegative ==
    pc # "called" =>
        /\ (IsTarget3 /\ CurrentPriceAbsentZeroNegative)
               => (pc = "raised" /\ ~CompleteResult)
        /\ request.project_type \in {TARGET_2_0, BUYER_REDUCED}
               => (pc = "returned" /\ CompleteResult)

\* C2 amended: a Target 3.0 call raises and produces no result exactly when the
\* current price is missing or zero; a negative current price is not rejected
\* and a complete result is returned; a Target 2.0 or BuyerReduced call never
\* raises and returns a complete result, whatever the current price.
C2_RaisesOnMissingOrZero ==
    pc # "called" =>
        /\ IsTarget3 =>
               /\ (pc = "raised") <=> (request.current_price_per_sqm \in {None, Some(0)})
               /\ (pc = "raised") => ~CompleteResult
               /\ (pc # "raised") => (pc = "returned" /\ CompleteResult)
        /\ request.project_type \in {TARGET_2_0, BUYER_REDUCED}
               => (pc = "returned" /\ CompleteResult)

C2_Witness ==
    /\ pc = "raised"
    /\ IsTarget3
    /\ request.current_price_per_sqm = Some(0)
    /\ ~CompleteResult

BothFloorsSupplied == Truthy(request.building_floors) /\ Truthy(request.apartment_floor)

\* C3 as stated: whenever both floor inputs are supplied, the reported adjusted
\* price is round(unrounded final price x (1 + adjustment)).
C3_AdjustedPriceFromUnroundedFinal ==
    (Returned /\ BothFloorsSupplied)
        => result.price_with_floor_adjustment
               = DRound(DMul(frame.final_price, 10000 + frame.floor_adjustment, 4))

\* C5 as stated: for every valid Target 2.0 request the discount
\* base total - final price is at most min(0.2 x base total, 300000).
C5_DiscountCapped ==
    (ReturnedValid /\ IsTarget2)
        => DLeq(DSub(frame.base_total_price, frame.final_price),
                DMin(DMul(frame.base_total_price, 2, 1), DInt(300000)))

\* C9 as stated: for every valid Target 3.0 request the final price is at least
\* 0.75 x base total and at least current total - discount limit, so the savings
\* current total - final price never exceed the discount limit.
C9_FinalAtLeastBothFloors ==
    (ReturnedValid /\ IsTarget3) =>
        /\ DLeq(frame.base_with_25_discount, frame.final_price)
        /\ DLeq(frame.current_minus_limit, frame.final_price)
        /\ DLeq(DSub(frame.current_total_price, frame.final_price),
                DInt(discount_limit_or_default(request)))

\* C9 amended: for every valid Target 3.0 request the final price is at least
\* 0.75 x base total; it is at least current total - discount limit, and the
\* savings are within the discount limit, when current total - discount limit
\* does not exceed the base total; otherwise the final price is the base total
\* and the savings exceed the discount limit.
C9_FloorsUpToTheClamp ==
    (ReturnedValid /\ IsTarget3) =>
        /\ DLeq(frame.base_with_25_discount, frame.final_price)
        /\ DLeq(frame.current_minus_limit, frame.base_total_price) =>
               /\ DLeq(frame.current_minus_limit, frame.final_price)
               /\ DLeq(DSub(frame.current_total_price, frame.final_price),
                       DInt(discount_limit_or_default(request)))
        /\ DLess(frame.base_total_price, frame.current_minus_limit) =>
               /\ DEq(frame.final_price, frame.base_total_price)
               /\ DLess(DInt(discount_limit_or_default(request)),
                        DSub(frame.current_total_price, frame.final_price))

C9_Witness ==
    /\ ReturnedValid
    /\ IsTarget3
    /\ DLess(frame.base_total_price, frame.current_minus_limit)
    /\ result.savings > discount_limit_or_default(request)

\* C10 as stated: for every valid request of any project type the final price
\* is non-negative.
C10_FinalPriceNonNegative ==
    ReturnedValid => (DLeq(DInt(0), frame.final_price) /\ result.final_price >= 0)

-----------------------------------------------------------------------------
(* Claims checked under SpecCalls.                                         *)

\* C7: the three reference requests of the self-test endpoint give the rounded
\* final prices 854577 (Target 2.0), 1766130 (Target 3.0) and 1133110
\* (BuyerReduced).
C7_ReferenceExamples ==
    \A i \in DOMAIN log :
        /\ log[i].request = example_2_0
               => (log[i].pc = "returned" /\ log[i].result.final_price = 854577)
        /\ log[i].request = example_3_0
               => (log[i].pc = "returned" /\ log[i].result.final_price = 1766130)
        /\ log[i].request = example_buyer
               => (log[i].pc = "returned" /\ log[i].result.final_price = 1133110)

\* the three calls of test_excel_examples, in its order
C7_Witness ==
    /\ Len(log) = 3
    /\ log[1].request = example_2_0
    /\ log[2].request = example_3_0
    /\ log[3].request = example_buyer
    /\ \A i \in 1..3 : log[i].pc = "returned"

-----------------------------------------------------------------------------
(* Claims checked under SpecBalcony and SpecFloor.                         *)

\* C4: for every balcony area a >= 0 the weighted balcony area is
\* 0.3*min(a,30) + 0.2*min(max(a-30,0),30) + 0.1*min(max(a-60,0),60) (here in
\* tenths); it is 0 at 0, 9 at 30, 15 at 60, 21 at 120 and 21 above 120.
C4_BalconyTiers ==
    pc = "returned" =>
        /\ ret[1] = 3 * Min2(arg[1], 30)
                    + 2 * Min2(Max2(arg[1] - 30, 0), 30)
                    + 1 * Min2(Max2(arg[1] - 60, 0), 60)
        /\ arg[1] = 0 => ret[1] = 0
        /\ arg[1] = 30 => ret[1] = 90
        /\ arg[1] = 60 => ret[1] = 150
        /\ arg[1] >= 120 => ret[1] = 210

C4_Witness == pc = "returned" /\ arg[1] = 150 /\ ret[1] = 210

\* C6 as stated: in a building of more than 10 floors N, for every floor f with
\* 1 <= f <= N, adjustment(N, f) = -adjustment(N, N + 1 - f).
C6_FloorAdjustmentSymmetric ==
    (pc = "returned" /\ arg[1] > 10 /\ arg[2] <= arg[1])
        => ret[1] = -calculate_floor_adjustment(arg[1], arg[1] + 1 - arg[2])

====
